---- MODULE Spec2Model ----
(***************************************************************************)
(* State-machine model of discosrv (src/main.go, src/types.go): the UDP    *)
(* dispatch loop with its per-source rate limiter, the announce / query    *)
(* handlers over the device registry, the expiry sweeper (clean) and the   *)
(* statistics reporter (logStats).                                         *)
(*                                                                         *)
(* Time is in epoch seconds.  An address string "scheme://host:port" is a  *)
(* record [scheme, host, port]; port = NoPort stands for a string without  *)
(* a port ("tcp://ip1"), which net.SplitHostPort rejects.                  *)
(***************************************************************************)
EXTENDS Integers, Sequences, FiniteSets, TLC

\* ---------------------------------------------------------------- constants
cacheLimitSeconds == 3600

\* flag defaults of main.go are 1024 / 1 / 10; the model runs a small
\* configuration of the same flags
lruSize == 2
limitAvg == 1
limitBurst == 1

\* the canonical port update() substitutes before comparing
CanonicalPort == 22000

\* ------------------------------------------------------------------- bounds
MaxPackets == 3
MaxDispatchPackets == 3
MaxTime == 7200
MaxLimitPackets == 5
MaxLimitTime == 30
MaxStatsPackets == 4

\* ------------------------------------------------------------ input domains
IPs == {"ip1", "ip2"}
LimitIPs == {"ip1", "ip2", "ip3"}
Devices == {"d1", "d2"}
\* key order of the registry's forward iterator
DeviceOrder == <<"d1", "d2">>

NoPort == 0
\* tcp://:9000 (empty host), tcp://ip1:9001, tcp://ip1 (no port) and
\* TCP://ip2:9002 (scheme in upper case)
AddrEmptyHost == [scheme |-> "tcp", host |-> "", port |-> 9000]
AddrIp1 == [scheme |-> "tcp", host |-> "ip1", port |-> 9001]
AddrNoPort == [scheme |-> "tcp", host |-> "ip1", port |-> NoPort]
AddrUpper == [scheme |-> "TCP", host |-> "ip2", port |-> 9002]
Relay1 == [address |-> "relay://r1", latency |-> 10]
Relay2 == [address |-> "relay://r2", latency |-> 20]

\* the time steps of the registry model (one retention window) and of the
\* limiter model (half a fill interval, one fill interval)
TimeSteps == {3600}
LimitSteps == {5, 10}

\* a device id on the wire: the 32 raw bytes, the text form, or neither
BadID == [form |-> "bad", dev |-> "none"]

Pkt(magic, src, decode, id, addresses, relays) ==
    [magic |-> magic, src |-> src, decode |-> decode, id |-> id,
     addresses |-> addresses, relays |-> relays]
RawD1 == [form |-> "raw", dev |-> "d1"]
TextD2 == [form |-> "text", dev |-> "d2"]

\* the datagrams of the registry model: announces of d1 that change the
\* port, add a host, repeat a host within one datagram, carry an address
\* without port and one with its scheme in upper case; one announce of d2;
\* a query of d1
Packets ==
    {Pkt("announce", "ip1", "ok", RawD1, <<AddrEmptyHost>>, <<>>),
     Pkt("announce", "ip1", "ok", RawD1, <<AddrIp1>>, <<Relay2, Relay1>>),
     Pkt("announce", "ip2", "ok", RawD1, <<AddrEmptyHost>>, <<Relay1>>),
     Pkt("announce", "ip1", "ok", RawD1, <<AddrEmptyHost, AddrIp1>>, <<>>),
     Pkt("announce", "ip1", "ok", RawD1, <<AddrNoPort, AddrUpper>>, <<>>),
     Pkt("announce", "ip2", "ok", TextD2, <<AddrEmptyHost>>, <<>>),
     Pkt("query", "ip2", "ok", RawD1, <<>>, <<>>)}

\* the datagrams of the dispatch model: every kind of datagram, with one
\* shape of content.  A truncated announce decodes to a prefix of its
\* fields (io.EOF), a malformed one to an error.
DispatchPackets ==
    {Pkt("announce", "ip1", "ok", RawD1, <<AddrEmptyHost>>, <<Relay1>>),
     Pkt("announce", "ip1", "eof", RawD1, <<>>, <<>>),
     Pkt("announce", "ip1", "eof", BadID, <<>>, <<>>),
     Pkt("announce", "ip1", "err", BadID, <<>>, <<>>),
     Pkt("announce", "ip1", "ok", BadID, <<AddrEmptyHost>>, <<>>),
     Pkt("query", "ip1", "ok", RawD1, <<>>, <<>>),
     Pkt("query", "ip2", "ok", RawD1, <<>>, <<>>),
     Pkt("query", "ip1", "ok", TextD2, <<>>, <<>>),
     Pkt("query", "ip1", "ok", BadID, <<>>, <<>>),
     Pkt("query", "ip1", "err", BadID, <<>>, <<>>),
     Pkt("unknown", "ip1", "ok", BadID, <<>>, <<>>),
     Pkt("short", "ip1", "ok", BadID, <<>>, <<>>)}

\* the datagrams of the statistics model: one per counter
StatsPackets ==
    {Pkt("announce", "ip1", "ok", RawD1, <<AddrEmptyHost>>, <<>>),
     Pkt("announce", "ip2", "ok", BadID, <<AddrEmptyHost>>, <<>>),
     Pkt("query", "ip2", "ok", RawD1, <<>>, <<>>),
     Pkt("query", "ip1", "ok", TextD2, <<>>, <<>>),
     Pkt("unknown", "ip1", "ok", BadID, <<>>, <<>>)}

ShortPacket(ip) == Pkt("short", ip, "ok", BadID, <<>>, <<>>)

\* -------------------------------------------------------------------- state
VARIABLES
    now,        \* wall clock
    db,         \* registry: device id -> stored value (NoVal when absent)
    limiter,    \* lru.Cache of buckets, most recently used first
    queries, announces, answered, limited, unknowns,
    dpc,        \* dispatcher position: "idle", "put", "answered"
    loc,        \* dispatcher locals while inside update(): the decoded
                \* packet and its source, now, addrs, and the record read
    lastAnn,    \* per device: the locals of its latest completed update(),
                \* with id telling whether a sweep pass was in progress
    out,        \* datagrams sent while handling the latest datagram
    rx,         \* the latest datagram's header, the outcome of its send
                \* and limit()'s verdict
    nrecv,      \* datagrams received
    spc,        \* sweeper position: "sleep", "scan"
    wake,       \* the sweeper's next wake-up time (t1 of next())
    nowSecs,    \* the pass's nowSecs
    snap,       \* the iterator's snapshot of the registry
    iter,       \* keys the iterator has still to visit
    kept, deleted,
    sweepLog,   \* the latest Kept/Deleted report
    passRecords,\* number of records when the latest pass began
    statsLine,  \* the latest line of logStats
    reported,   \* per counter, the sum over the lines logStats has written
    announced,  \* per device, the addresses of its announces and their sources
    lastPkt,    \* per source: <<time, number>> of its latest datagram, or
                \* NoTime
    underRate,  \* per source: every gap so far was >= one fill interval
    burstRun    \* per source: datagrams of the back-to-back run that
                \* created its bucket (0: no such run in progress)

regVars == <<db, dpc, loc, lastAnn, announced, out, spc, wake, nowSecs, snap, iter, kept, deleted,
             sweepLog, passRecords>>
statVars == <<queries, announces, answered, limited, unknowns, statsLine,
              reported>>
limVars == <<limiter, rx, nrecv, lastPkt, underRate, burstRun>>
vars == <<now, db, limiter, queries, announces, answered, limited, unknowns,
          dpc, loc, lastAnn, out, rx, nrecv, spc, wake, nowSecs, snap, iter, kept,
          deleted, sweepLog, passRecords, statsLine, reported, announced,
          lastPkt, underRate, burstRun>>

NoVal == <<>>
NoLoc == [id |-> "none", src |-> "none", wire |-> <<>>, at |-> 0,
          addrs |-> <<>>, relays |-> <<>>, read |-> <<>>]
NoTime == <<>>

\* ------------------------------------------------------------ pure helpers
Min(a, b) == IF a < b THEN a ELSE b

\* url.Parse: the scheme is kept in lower case, so that uri.String() of a
\* parsed address need not be the string that was parsed
ToLower(scheme) == IF scheme = "TCP" THEN "tcp" ELSE scheme
URLParse(a) == [a EXCEPT !.scheme = ToLower(@)]

\* net.SplitHostPort(uri.Host): fails on a string without port
SplitHostPortOK(a) == a.port # NoPort

\* uri.Host = net.JoinHostPort(host, port); uri.String()
WithHost(a, host) == [a EXCEPT !.host = host]
WithPort(a, port) == [a EXCEPT !.port = port]

\* id: the 32 raw bytes are copied, anything else goes through UnmarshalText
IDOK(wid) == wid.form \in {"raw", "text"}
ResolveID(wid) == wid.dev

\* addressList.MarshalXDR / UnmarshalXDR: two length-prefixed lists
XLen(n) == [t |-> "len", n |-> n]
XAddr(a) == [t |-> "address", address |-> a.address, seen |-> a.seen]
XRelay(r) == [t |-> "relay", address |-> r.address, latency |-> r.latency]
MarshalXDR(al) ==
    <<XLen(Len(al.addresses))>>
      \o [i \in 1..Len(al.addresses) |-> XAddr(al.addresses[i])]
      \o <<XLen(Len(al.relays))>>
      \o [i \in 1..Len(al.relays) |-> XRelay(al.relays[i])]
UnmarshalXDR(val) ==
    LET n == val[1].n
        m == val[n + 2].n
    IN  [addresses |-> [i \in 1..n |->
                          [address |-> val[i + 1].address, seen |-> val[i + 1].seen]],
         relays |-> [i \in 1..m |->
                          [address |-> val[n + 2 + i].address,
                           latency |-> val[n + 2 + i].latency]]]

\* db.Get followed by UnmarshalXDR when the key is present; an absent key
\* leaves the zero addressList
ReadRecord(store, id) ==
    IF store[id] = NoVal THEN [addresses |-> <<>>, relays |-> <<>>]
    ELSE UnmarshalXDR(store[id])

\* ------------------------------------------------------------- rate limiter
\* ratelimit.NewBucket(10*time.Second/limitAvg, limitBurst): a full bucket
\* that gains one token per fill interval, counted from its creation
FillInterval == 10 \div limitAvg
NewBucket(t) == [startTime |-> t, availTick |-> 0, avail |-> limitBurst]

\* a bucket that is never refilled
AdjustNoRefill(b, t) ==
    [b EXCEPT !.availTick = (t - b.startTime) \div FillInterval]

Adjust(b, t) ==
    LET tick == (t - b.startTime) \div FillInterval
    IN  [b EXCEPT !.avail = Min(limitBurst, b.avail + (tick - b.availTick)),
                  !.availTick = tick]

\* bkt.TakeAvailable(1)
TakeAvailable(b, t) ==
    LET adj == Adjust(b, t)
    IN  IF adj.avail <= 0 THEN [bkt |-> adj, taken |-> 0]
        ELSE [bkt |-> [adj EXCEPT !.avail = @ - 1], taken |-> 1]

\* lru.Cache: entries most recently used first
CacheIndex(c, key) ==
    IF \E i \in 1..Len(c) : c[i].key = key
    THEN CHOOSE i \in 1..Len(c) : c[i].key = key
    ELSE 0
CacheRemove(c, i) == SubSeq(c, 1, i - 1) \o SubSeq(c, i + 1, Len(c))
\* a Get that leaves the entry where it is
CacheTouchInPlace(c, i, bkt) == [c EXCEPT ![i] = [key |-> c[i].key, bkt |-> bkt]]

\* Get moves the entry to the front
CacheTouch(c, i, bkt) == <<[key |-> c[i].key, bkt |-> bkt]>> \o CacheRemove(c, i)
\* Add pushes to the front and removes the oldest entry beyond MaxEntries
CacheAdd(c, key, bkt) ==
    LET added == <<[key |-> key, bkt |-> bkt]>> \o c
    IN  IF lruSize # 0 /\ Len(added) > lruSize
        THEN SubSeq(added, 1, Len(added) - 1)
        ELSE added

\* limit() taking a token from the bucket it has just created
limitTakesOnCreate(key) ==
    LET i == CacheIndex(limiter, key)
        r == TakeAvailable(IF i # 0 THEN limiter[i].bkt ELSE NewBucket(now), now)
        c == IF i # 0 THEN CacheTouch(limiter, i, r.bkt)
             ELSE CacheAdd(limiter, key, r.bkt)
    IN  IF r.taken # 1
        THEN [reject |-> TRUE, cache |-> c, limited |-> limited + 1]
        ELSE [reject |-> FALSE, cache |-> c, limited |-> limited]

\* limit(addr): the verdict, the cache and the limited counter afterwards
limit(key) ==
    LET i == CacheIndex(limiter, key)
    IN  IF i # 0
        THEN LET r == TakeAvailable(limiter[i].bkt, now)
             IN  IF r.taken # 1
                 THEN [reject |-> TRUE, cache |-> CacheTouch(limiter, i, r.bkt),
                       limited |-> limited + 1]
                 ELSE [reject |-> FALSE, cache |-> CacheTouch(limiter, i, r.bkt),
                       limited |-> limited]
        ELSE [reject |-> FALSE, cache |-> CacheAdd(limiter, key, NewBucket(now)),
              limited |-> limited]

\* ------------------------------------------------------------------ update
\* an update() that appends every new address
MergeScanAppend(ex, newAddr, i) == Append(ex, newAddr)

\* the inner loop of update() for one new address, from index i on
RECURSIVE MergeScan(_, _, _)
MergeScan(ex, newAddr, i) ==
    IF i > Len(ex) THEN Append(ex, newAddr)
    ELSE IF ~SplitHostPortOK(newAddr.address) THEN ex
    ELSE IF ~SplitHostPortOK(ex[i].address) THEN MergeScan(ex, newAddr, i + 1)
    ELSE IF WithPort(URLParse(ex[i].address), CanonicalPort)
              = WithPort(URLParse(newAddr.address), CanonicalPort)
         THEN [ex EXCEPT ![i] = newAddr]
         ELSE MergeScan(ex, newAddr, i + 1)

\* the nextAddr loop
RECURSIVE MergeAddrs(_, _)
MergeAddrs(ex, addrs) ==
    IF addrs = <<>> THEN ex
    ELSE MergeAddrs(MergeScan(ex, Head(addrs), 1), Tail(addrs))

\* discover.Relay -> relay
LocalRelays(relays) ==
    [i \in 1..Len(relays) |->
        [address |-> relays[i].address, latency |-> relays[i].latency]]

\* update() after its db.Get: the value it puts
UpdateValue(read, addrs, relays) ==
    MarshalXDR([addresses |-> MergeAddrs(read.addresses, addrs),
                relays |-> LocalRelays(relays)])

\* --------------------------------------------------------- handleAnnounceV2
\* the address loop: unparsable addresses are skipped, an empty host is
\* filled in from the source IP
\* an address loop that leaves an empty host empty
AnnouncedAddrAsSent(a, ip, t) == [address |-> URLParse(a), seen |-> t]

AnnouncedAddr(a, ip, t) ==
    LET uri == URLParse(a)
    IN  [address |-> IF uri.host = "" THEN WithHost(uri, ip) ELSE uri, seen |-> t]
RECURSIVE AnnouncedAddrs(_, _, _)
AnnouncedAddrs(wire, ip, t) ==
    IF wire = <<>> THEN <<>>
    ELSE IF ~SplitHostPortOK(Head(wire)) THEN AnnouncedAddrs(Tail(wire), ip, t)
    ELSE <<AnnouncedAddr(Head(wire), ip, t)>> \o AnnouncedAddrs(Tail(wire), ip, t)

\* what a handler leaves behind: the dispatcher's next position, its
\* locals, the datagrams sent and the counter increments
Dropped ==
    [dpc |-> "idle", loc |-> NoLoc, out |-> <<>>,
     queries |-> 0, announces |-> 0, unknowns |-> 0]

\* handleAnnounceV2 up to and including update()'s db.Get
handleAnnounceV2(pkt) ==
    IF pkt.decode = "err" THEN Dropped
    ELSE IF ~IDOK(pkt.id) THEN [Dropped EXCEPT !.announces = 1]
    ELSE [Dropped EXCEPT
            !.announces = 1,
            !.dpc = "put",
            !.loc = [id |-> ResolveID(pkt.id),
                     src |-> pkt.src, wire |-> pkt.addresses, at |-> now,
                     addrs |-> AnnouncedAddrs(pkt.addresses, pkt.src, now),
                     relays |-> pkt.relays,
                     read |-> ReadRecord(db, ResolveID(pkt.id))]]

\* ------------------------------------------------------------ handleQueryV2
\* a reply with every stored address
AllAddrs(addrs, t) == [i \in 1..Len(addrs) |-> addrs[i].address]

\* the addresses of the reply: those seen within cacheLimitSeconds
RECURSIVE FreshAddrs(_, _)
FreshAddrs(addrs, t) ==
    IF addrs = <<>> THEN <<>>
    ELSE IF t - Head(addrs).seen > cacheLimitSeconds THEN FreshAddrs(Tail(addrs), t)
    ELSE <<Head(addrs).address>> \o FreshAddrs(Tail(addrs), t)

QueryReply(pkt, read, t) ==
    [magic |-> "announce", id |-> pkt.id,
     addresses |-> FreshAddrs(read.addresses, t),
     relays |-> [i \in 1..Len(read.relays) |->
                   [address |-> read.relays[i].address,
                    latency |-> read.relays[i].latency]]]

\* a handleQueryV2 that stores the queried record again with its addresses
\* marked as seen now
handleQueryV2Refresh(pkt, sendOK) ==
    IF pkt.decode # "ok" \/ ~IDOK(pkt.id) THEN Dropped
    ELSE LET read == ReadRecord(db, ResolveID(pkt.id))
         IN  [Dropped EXCEPT
                !.queries = 1,
                !.dpc = "put",
                !.loc = [id |-> ResolveID(pkt.id), src |-> pkt.src,
                         wire |-> <<>>, at |-> now,
                         addrs |-> [i \in 1..Len(read.addresses) |->
                                      [read.addresses[i] EXCEPT !.seen = now]],
                         relays |-> read.relays, read |-> read]]

\* a handleQueryV2 that replies whether or not it has an address to give
handleQueryV2AlwaysReply(pkt, sendOK) ==
    IF pkt.decode # "ok" \/ ~IDOK(pkt.id) THEN Dropped
    ELSE LET read == ReadRecord(db, ResolveID(pkt.id))
             ann == QueryReply(pkt, read, now)
         IN  IF sendOK
             THEN [Dropped EXCEPT !.queries = 1, !.dpc = "answered",
                                  !.out = <<[to |-> pkt.src, pkt |-> ann]>>]
             ELSE [Dropped EXCEPT !.queries = 1]

\* handleQueryV2 up to the send; sendOK is the outcome of MarshalXDR and
\* WriteToUDP.  The answered counter is incremented in the next step.
handleQueryV2(pkt, sendOK) ==
    IF pkt.decode # "ok" \/ ~IDOK(pkt.id) THEN Dropped
    ELSE LET read == ReadRecord(db, ResolveID(pkt.id))
             ann == QueryReply(pkt, read, now)
         IN  IF Len(read.addresses) > 0 /\ Len(ann.addresses) # 0 /\ sendOK
             THEN [Dropped EXCEPT !.queries = 1, !.dpc = "answered",
                                  !.out = <<[to |-> pkt.src, pkt |-> ann]>>]
             ELSE [Dropped EXCEPT !.queries = 1]

\* a magic switch without its default case
dispatchNoDefault(pkt, sendOK) ==
    IF pkt.magic = "announce" THEN handleAnnounceV2(pkt)
    ELSE IF pkt.magic = "query" THEN handleQueryV2(pkt, sendOK)
    ELSE Dropped

\* the magic switch of main()
dispatch(pkt, sendOK) ==
    IF pkt.magic = "short" THEN Dropped
    ELSE IF pkt.magic = "announce" THEN handleAnnounceV2(pkt)
    ELSE IF pkt.magic = "query" THEN handleQueryV2(pkt, sendOK)
    ELSE [Dropped EXCEPT !.unknowns = 1]

\* -------------------------------------------------------------------- clean
\* the expiry loop of clean(): an expired entry is overwritten by the last
\* one, the list is shortened, and i moves on
RECURSIVE RemoveExpired(_, _, _)
RemoveExpired(newAddrs, i, t) ==
    IF i > Len(newAddrs) THEN newAddrs
    ELSE IF t - newAddrs[i].seen > cacheLimitSeconds
         THEN RemoveExpired(
                SubSeq([newAddrs EXCEPT ![i] = newAddrs[Len(newAddrs)]],
                       1, Len(newAddrs) - 1), i + 1, t)
         ELSE RemoveExpired(newAddrs, i + 1, t)

\* next(intv): the next multiple of intv after t0
next(intv, t0) == ((t0 + intv) \div intv) * intv

\* the keys a forward iterator over store visits
IterKeys(store) == SelectSeq(DeviceOrder, LAMBDA d : store[d] # NoVal)

\* ------------------------------------------------------------------ actions
Init ==
    /\ now = 0
    /\ db = [d \in Devices |-> NoVal]
    /\ limiter = <<>>
    /\ queries = 0 /\ announces = 0 /\ answered = 0 /\ limited = 0 /\ unknowns = 0
    /\ dpc = "idle" /\ loc = NoLoc /\ out = <<>>
    /\ lastAnn = [d \in Devices |-> NoLoc]
    /\ announced = [d \in Devices |-> {}]
    /\ rx = [src |-> "none", magic |-> "none", decode |-> "ok", id |-> BadID,
             sendOK |-> TRUE, admitted |-> TRUE]
    /\ nrecv = 0
    /\ spc = "sleep" /\ wake = next(cacheLimitSeconds, 0) /\ nowSecs = 0
    /\ snap = [d \in Devices |-> NoVal] /\ iter = <<>>
    /\ kept = 0 /\ deleted = 0
    /\ sweepLog = [nowSecs |-> 0, kept |-> 0, deleted |-> 0]
    /\ passRecords = 0
    /\ statsLine = [queries |-> 0, answered |-> 0, announces |-> 0,
                    unknowns |-> 0, limited |-> 0]
    /\ reported = [queries |-> 0, answered |-> 0, announces |-> 0,
                   unknowns |-> 0, limited |-> 0]
    /\ lastPkt = [ip \in LimitIPs |-> NoTime]
    /\ underRate = [ip \in LimitIPs |-> TRUE]
    /\ burstRun = [ip \in LimitIPs |-> 0]

\* the addresses a device has announced so far, each with the source of
\* the datagram, after an announce has got as far as update()
Heard(l) ==
    IF l.id \in Devices
    THEN [announced EXCEPT ![l.id] =
            @ \cup {[address |-> l.wire[i], src |-> l.src] : i \in 1..Len(l.wire)}]
    ELSE announced

\* a loop that dispatches the datagram whatever limit() said
ReceiveIgnoringLimit(pkt, sendOK) ==
    LET v == limit(pkt.src)
        h == dispatch(pkt, sendOK)
    IN  /\ dpc = "idle"
        /\ nrecv' = nrecv + 1
        /\ limiter' = v.cache
        /\ limited' = v.limited
        /\ rx' = [src |-> pkt.src, magic |-> pkt.magic, decode |-> pkt.decode,
                  id |-> pkt.id, sendOK |-> sendOK, admitted |-> ~v.reject]
        /\ dpc' = h.dpc
        /\ loc' = h.loc
        /\ out' = h.out
        /\ queries' = queries + h.queries
        /\ announces' = announces + h.announces
        /\ unknowns' = unknowns + h.unknowns
        /\ announced' = Heard(h.loc)
        /\ UNCHANGED <<now, db, lastAnn, answered, spc, wake, nowSecs, snap, iter,
                       kept, deleted, sweepLog, passRecords, statsLine,
                       reported>>

\* one iteration of main()'s loop: ReadFromUDP, limit, the magic switch and
\* the handler, up to the handler's next access to shared state
Receive(pkt, sendOK) ==
    LET v == limit(pkt.src)
        h == IF v.reject THEN Dropped ELSE dispatch(pkt, sendOK)
    IN  /\ dpc = "idle"
        /\ nrecv' = nrecv + 1
        /\ limiter' = v.cache
        /\ limited' = v.limited
        /\ rx' = [src |-> pkt.src, magic |-> pkt.magic, decode |-> pkt.decode,
                  id |-> pkt.id, sendOK |-> sendOK, admitted |-> ~v.reject]
        /\ dpc' = h.dpc
        /\ loc' = h.loc
        /\ out' = h.out
        /\ queries' = queries + h.queries
        /\ announces' = announces + h.announces
        /\ unknowns' = unknowns + h.unknowns
        /\ announced' = Heard(h.loc)
        /\ UNCHANGED <<now, db, lastAnn, answered, spc, wake, nowSecs, snap, iter, kept,
                       deleted, sweepLog, passRecords, statsLine, reported>>

RecvPacket ==
    /\ nrecv < MaxPackets
    /\ \E pkt \in Packets :
         \E sendOK \in (IF pkt.magic = "query" THEN BOOLEAN ELSE {TRUE}) :
            Receive(pkt, sendOK)
    /\ UNCHANGED <<lastPkt, underRate, burstRun>>

RecvDispatch ==
    /\ nrecv < MaxDispatchPackets
    /\ \E pkt \in DispatchPackets :
         \E sendOK \in (IF pkt.magic = "query" THEN BOOLEAN ELSE {TRUE}) :
            Receive(pkt, sendOK)
    /\ UNCHANGED <<lastPkt, underRate, burstRun>>

\* the rest of update(): the merge, the relays and db.Put
UpdatePut ==
    /\ dpc = "put"
    /\ db' = [db EXCEPT ![loc.id] = UpdateValue(loc.read, loc.addrs, loc.relays)]
    /\ dpc' = "idle"
    /\ loc' = NoLoc
    /\ lastAnn' = [lastAnn EXCEPT ![loc.id] =
                      [loc EXCEPT !.id = IF spc = "scan" THEN "pass" ELSE "quiet"]]
    /\ UNCHANGED <<now, out, spc, wake, nowSecs, snap, iter, kept, deleted,
                   sweepLog, passRecords, announced>>
    /\ UNCHANGED statVars
    /\ UNCHANGED limVars

\* the rest of handleQueryV2: answered++ under the lock
CountAnswered ==
    /\ dpc = "answered"
    /\ answered' = answered + 1
    /\ dpc' = "idle"
    /\ UNCHANGED <<now, db, loc, lastAnn, announced, out, spc, wake, nowSecs, snap, iter,
                   kept, deleted, sweepLog, passRecords>>
    /\ UNCHANGED <<queries, announces, limited, unknowns, statsLine, reported>>
    /\ UNCHANGED limVars

\* clean(): next() has returned; the iterator is created on a snapshot
SweepStart ==
    /\ spc = "sleep"
    /\ now >= wake
    /\ spc' = "scan"
    /\ nowSecs' = wake
    /\ snap' = db
    /\ iter' = IterKeys(db)
    /\ kept' = 0
    /\ deleted' = 0
    /\ passRecords' = Cardinality({d \in Devices : db[d] # NoVal})
    /\ UNCHANGED <<now, db, dpc, loc, lastAnn, announced, out, wake, sweepLog>>
    /\ UNCHANGED statVars
    /\ UNCHANGED limVars

\* the record clean() leaves for a snapshot value: NoVal when it deletes
\* the key, the value itself when it writes nothing
CleanValue(val, t) ==
    LET addrs == UnmarshalXDR(val)
        newAddrs == RemoveExpired(addrs.addresses, 1, t)
    IN  IF Len(newAddrs) = 0 THEN NoVal
        ELSE IF Len(newAddrs) # Len(addrs.addresses)
             THEN MarshalXDR([addrs EXCEPT !.addresses = newAddrs])
             ELSE val

\* a scan that counts a record it has deleted as kept, too
CountBoth(res) ==
    [kept |-> kept + 1,
     deleted |-> IF res = NoVal THEN deleted + 1 ELSE deleted]

\* the counters after the record: deleted++ and continue, or kept++
Count(res) ==
    [kept |-> IF res = NoVal THEN kept ELSE kept + 1,
     deleted |-> IF res = NoVal THEN deleted + 1 ELSE deleted]

\* one iteration of clean()'s scan
SweepStep ==
    /\ spc = "scan"
    /\ iter # <<>>
    /\ LET key == Head(iter)
           res == CleanValue(snap[key], nowSecs)
       IN  /\ db' = IF res = snap[key] THEN db ELSE [db EXCEPT ![key] = res]
           /\ deleted' = Count(res).deleted
           /\ kept' = Count(res).kept
    /\ iter' = Tail(iter)
    /\ UNCHANGED <<now, dpc, loc, lastAnn, announced, out, spc, wake, nowSecs, snap,
                   sweepLog, passRecords>>
    /\ UNCHANGED statVars
    /\ UNCHANGED limVars

\* the scan is over: the report, and next() for the following pass
SweepEnd ==
    /\ spc = "scan"
    /\ iter = <<>>
    /\ sweepLog' = [nowSecs |-> nowSecs, kept |-> kept, deleted |-> deleted]
    /\ spc' = "sleep"
    /\ wake' = next(cacheLimitSeconds, now)
    /\ snap' = [d \in Devices |-> NoVal]
    /\ kept' = 0
    /\ deleted' = 0
    /\ UNCHANGED <<now, db, dpc, loc, lastAnn, announced, out, nowSecs, iter, passRecords>>
    /\ UNCHANGED statVars
    /\ UNCHANGED limVars

\* a logStats that does not reset the queries counter
LogStatsNoReset ==
    /\ statsLine' = [queries |-> queries, answered |-> answered,
                     announces |-> announces, unknowns |-> unknowns,
                     limited |-> limited]
    /\ reported' = [c \in DOMAIN reported |-> reported[c] + statsLine'[c]]
    /\ queries' = queries /\ announces' = 0 /\ answered' = 0
    /\ limited' = 0 /\ unknowns' = 0
    /\ UNCHANGED now
    /\ UNCHANGED regVars
    /\ UNCHANGED limVars

\* logStats(): the line and the reset, under the lock
LogStats ==
    /\ statsLine' = [queries |-> queries, answered |-> answered,
                     announces |-> announces, unknowns |-> unknowns,
                     limited |-> limited]
    /\ reported' = [c \in DOMAIN reported |-> reported[c] + statsLine'[c]]
    /\ queries' = 0 /\ announces' = 0 /\ answered' = 0
    /\ limited' = 0 /\ unknowns' = 0
    /\ UNCHANGED now
    /\ UNCHANGED regVars
    /\ UNCHANGED limVars

Advance(d) ==
    /\ now' = now + d
    /\ burstRun' = [ip \in LimitIPs |-> 0]
    /\ UNCHANGED regVars
    /\ UNCHANGED statVars
    /\ UNCHANGED <<limiter, rx, nrecv, lastPkt, underRate>>

\* The registry model's clock moves by whole retention windows, which no
\* handler and no pass takes: it moves while the dispatcher waits for a
\* datagram and the sweeper sleeps, and not past a pass that is due.
Tick ==
    /\ dpc = "idle"
    /\ spc = "sleep"
    /\ now < wake
    /\ \E d \in TimeSteps : now + d <= MaxTime /\ Advance(d)

Next ==
    \/ RecvPacket
    \/ UpdatePut
    \/ CountAnswered
    \/ SweepStart
    \/ SweepStep
    \/ SweepEnd
    \/ Tick

\* the registry model: the default configuration (no statistics reporter)
Spec == Init /\ [][Next]_vars

\* the dispatch model: every kind of datagram
NextDispatch ==
    \/ RecvDispatch
    \/ UpdatePut
    \/ CountAnswered
    \/ SweepStart
    \/ SweepStep
    \/ SweepEnd
    \/ Tick

SpecDispatch == Init /\ [][NextDispatch]_vars

\* the statistics model: the reporter runs (-stats-intv > 0) beside the
\* dispatcher
RecvStats ==
    /\ nrecv < MaxStatsPackets
    /\ \E pkt \in StatsPackets :
         \E sendOK \in (IF pkt.magic = "query" THEN BOOLEAN ELSE {TRUE}) :
            Receive(pkt, sendOK)
    /\ UNCHANGED <<lastPkt, underRate, burstRun>>

NextStats ==
    \/ RecvStats
    \/ UpdatePut
    \/ CountAnswered
    \/ LogStats

SpecStats == Init /\ [][NextStats]_vars

\* the limiter alone: datagrams too short to dispatch, at a finer time step
LimitPacket ==
    /\ nrecv < MaxLimitPackets
    /\ \E ip \in LimitIPs :
         /\ Receive(ShortPacket(ip), TRUE)
         /\ lastPkt' = [lastPkt EXCEPT ![ip] = <<now, nrecv + 1>>]
         /\ underRate' = [underRate EXCEPT ![ip] =
                             @ /\ (lastPkt[ip] = NoTime
                                     \/ now - lastPkt[ip][1] >= FillInterval)]
         /\ burstRun' = [burstRun EXCEPT ![ip] =
                             IF CacheIndex(limiter, ip) = 0 THEN 1
                             ELSE IF @ > 0 THEN @ + 1 ELSE 0]

LimitTick == \E d \in LimitSteps : now + d <= MaxLimitTime /\ Advance(d)

NextLimit == LimitPacket \/ LimitTick

SpecLimit == Init /\ [][NextLimit]_vars

\* update() on its own: the function is called with arguments drawn from a
\* small set, parsable or not, on whatever the earlier calls have stored
MaxUpdateCalls == 2
UpdateAddrLists ==
    {<<>>,
     <<[address |-> AddrIp1, seen |-> 0]>>,
     <<[address |-> AddrNoPort, seen |-> 0]>>,
     <<[address |-> AddrNoPort, seen |-> 0], [address |-> AddrIp1, seen |-> 0]>>,
     <<[address |-> WithPort(AddrIp1, 9003), seen |-> 0],
       [address |-> WithHost(AddrIp1, "ip2"), seen |-> 0]>>}
UpdateRelayLists == {<<>>, <<Relay1>>}

\* update(db, id, addrs, relays) up to and including its db.Get
UpdateCall(id, addrs, relays) ==
    /\ dpc = "idle"
    /\ nrecv < MaxUpdateCalls
    /\ nrecv' = nrecv + 1
    /\ dpc' = "put"
    /\ loc' = [id |-> id, src |-> "none", wire |-> <<>>, at |-> now,
               addrs |-> addrs, relays |-> relays, read |-> ReadRecord(db, id)]
    /\ UNCHANGED <<now, db, lastAnn, announced, out, rx, spc, wake, nowSecs, snap, iter,
                   kept, deleted, sweepLog, passRecords>>
    /\ UNCHANGED statVars
    /\ UNCHANGED <<limiter, lastPkt, underRate, burstRun>>

NextUpdate ==
    \/ \E id \in Devices, addrs \in UpdateAddrLists, relays \in UpdateRelayLists :
          UpdateCall(id, addrs, relays)
    \/ UpdatePut

SpecUpdate == Init /\ [][NextUpdate]_vars

\* ------------------------------------------------------------------ claims
Range(q) == {q[i] : i \in 1..Len(q)}

\* C2 as stated: of burst+1 back-to-back datagrams from an IP that had no
\* bucket, the (burst+1)-th is rejected.
C2_BurstPlusOneRejected ==
    (rx.src # "none" /\ burstRun[rx.src] = limitBurst + 1) => ~rx.admitted

\* C2 amended: the first burst+1 back-to-back datagrams from an IP that had
\* no bucket are admitted (the first by bucket creation, the next burst by
\* the tokens of the full bucket) and the (burst+2)-th is rejected.
C2_BurstPlusTwoRejected ==
    rx.src # "none" =>
        /\ burstRun[rx.src] \in 1..(limitBurst + 1) => rx.admitted
        /\ burstRun[rx.src] = limitBurst + 2 => ~rx.admitted

C2_Witness ==
    /\ rx.src # "none"
    /\ burstRun[rx.src] = limitBurst + 2
    /\ ~rx.admitted
    /\ limited = 1

\* C7: a source whose consecutive datagrams were always at least one fill
\* interval apart is admitted on every datagram, whatever the other sources
\* send and whether or not its bucket was evicted in between.
C7_UnderRateAdmitted ==
    (rx.src # "none" /\ underRate[rx.src]) => rx.admitted

\* the source has sent at its full rate for two intervals on one bucket,
\* whose tokens are used up, with another source's datagrams in between
C7_Witness ==
    /\ rx.src = "ip1"
    /\ underRate["ip1"]
    /\ rx.admitted
    /\ \E i \in 1..Len(limiter) :
          /\ limiter[i].key = "ip1"
          /\ limiter[i].bkt.availTick >= 2
          /\ limiter[i].bkt.avail = 0
    /\ lastPkt["ip2"] # NoTime

\* C8: a datagram limit() rejects changes nothing but the limited counter,
\* which goes up by one in the step that takes the decision: the registry,
\* the other counters and the dispatcher's position are unchanged and no
\* datagram is sent.  An admitted datagram, and every step that receives no
\* datagram, leaves the limited counter alone.
C8_LimitedDropped ==
    [][IF nrecv' = nrecv + 1 /\ ~rx'.admitted
       THEN /\ db' = db
            /\ out' = <<>>
            /\ dpc' = "idle"
            /\ queries' = queries /\ answered' = answered
            /\ announces' = announces /\ unknowns' = unknowns
            /\ limited' = limited + 1
       ELSE limited' = limited]_vars

\* an announce and a query are rejected while the registry holds a record
C8_Witness ==
    /\ ~rx.admitted
    /\ rx.magic \in {"announce", "query"}
    /\ db["d1"] # NoVal
    /\ limited = 1

\* ---- steps, as seen in a pair of states
QueryStep ==
    /\ nrecv' = nrecv + 1
    /\ rx'.magic = "query" /\ rx'.admitted /\ rx'.decode = "ok"
    /\ rx'.id.form # "bad"
PutStep == dpc = "put" /\ dpc' = "idle"
ScanStep == spc = "scan" /\ iter # <<>> /\ iter' = Tail(iter)
PassEnd == spc = "scan" /\ spc' = "sleep"
PassStart == spc = "sleep" /\ spc' = "scan"

StoredAddrs(store, d) == IF store[d] = NoVal THEN <<>> ELSE UnmarshalXDR(store[d]).addresses
StoredRelays(store, d) == IF store[d] = NoVal THEN <<>> ELSE UnmarshalXDR(store[d]).relays
SameEndpoint(a, b) == a.scheme = b.scheme /\ a.host = b.host
HasPort(a) == a.port # NoPort
MaxOf(S) == CHOOSE x \in S : \A y \in S : y <= x
\* the address as it is to be stored: an empty host becomes the source IP
Filled(a, src) == [scheme |-> a.scheme,
                   host |-> IF a.host = "" THEN src ELSE a.host,
                   port |-> a.port]

\* ---- C1
\* the latest announce of device d was stored with no sweep pass in
\* progress, at most cacheLimitSeconds ago
C1_Covered(d) ==
    /\ lastAnn[d].id = "quiet"
    /\ now - lastAnn[d].at <= cacheLimitSeconds
C1_Replied(d, a) ==
    /\ Len(out') = 1
    /\ out'[1].to = rx'.src
    /\ out'[1].pkt.magic = "announce"
    /\ out'[1].pkt.id = rx'.id
    /\ a \in Range(out'[1].pkt.addresses)
    /\ lastAnn[d].relays = <<>> => out'[1].pkt.relays = <<>>

C3_NoLostUpdate ==
    [][(ScanStep /\ db[Head(iter)] # snap[Head(iter)])
          => db'[Head(iter)] = db[Head(iter)]]_vars

\* ---- C4
C4_Fresh(addrs, t) == {addrs[i] : i \in {j \in 1..Len(addrs) : t - addrs[j].seen <= cacheLimitSeconds}}
\* C4 as stated: a pass that meets no concurrent write leaves, of every
\* record, exactly the addresses seen within cacheLimitSeconds of nowSecs,
\* and no record at all when there is none.
C4_SweepPrunes ==
    [][(ScanStep /\ db[Head(iter)] = snap[Head(iter)]) =>
          LET d == Head(iter)
              fresh == C4_Fresh(StoredAddrs(snap, d), nowSecs)
          IN  /\ Range(StoredAddrs(db', d)) = fresh
              /\ fresh = {} <=> db'[d] = NoVal]_vars

\* ---- C5
C5_Matches(l, a) == {j \in 1..Len(l) : SameEndpoint(l[j].address, a.address)}
\* the new addresses that match no stored one and no earlier new one
C5_NewFirst(ex, l) ==
    {j \in 1..Len(l) :
        /\ \A i \in 1..Len(ex) : ~SameEndpoint(l[j].address, ex[i].address)
        /\ \A k \in 1..(j - 1) : ~SameEndpoint(l[j].address, l[k].address)}
\* C5: update() replaces in place the stored entry with the scheme and host
\* of a new address, by the new address and timestamp (the last one, when
\* several new addresses have that scheme and host), and appends the new
\* addresses that match no stored entry, in order, after the stored ones:
\* the list grows by the number of new scheme+host values only.
C5_ReplaceOnHostMatch ==
    [][PutStep =>
        LET ex == loc.read.addresses
            l == loc.addrs
            res == StoredAddrs(db', loc.id)
            fresh == C5_NewFirst(ex, l)
        IN  /\ Len(res) = Len(ex) + Cardinality(fresh)
            /\ \A i \in 1..Len(ex) :
                  res[i] = IF C5_Matches(l, ex[i]) = {} THEN ex[i]
                           ELSE l[MaxOf(C5_Matches(l, ex[i]))]
            /\ \A j \in fresh :
                  res[Len(ex) + Cardinality({k \in fresh : k <= j})]
                    = l[MaxOf(C5_Matches(l, l[j]))]]_vars

\* tcp://ip1:9000 was stored, tcp://ip1:9001 announced: one address, the
\* second, is stored
C5_Witness ==
    LET la == lastAnn["d1"]
    IN  /\ la.id # "none"
        /\ Len(la.read.addresses) = 1
        /\ la.read.addresses[1].address = [scheme |-> "tcp", host |-> "ip1", port |-> 9000]
        /\ Len(la.addrs) = 1
        /\ la.addrs[1].address = [scheme |-> "tcp", host |-> "ip1", port |-> 9001]
        /\ la.addrs[1].seen > la.read.addresses[1].seen
        /\ StoredAddrs(db, "d1") = la.addrs

\* ---- C6
C6_IsFresh(a) == now - a.seen <= cacheLimitSeconds
\* C6: the reply to a query for D holds exactly the stored addresses of D
\* seen within cacheLimitSeconds, in stored order, and the stored relays;
\* with no such address nothing is sent.  The answered counter goes up only
\* in the step that follows a sent reply.
C6_QueryFreshness ==
    [][/\ QueryStep =>
            LET d == rx'.id.dev
                fresh == SelectSeq(StoredAddrs(db, d), C6_IsFresh)
            IN  /\ answered' = answered
                /\ IF fresh # <<>> /\ rx'.sendOK
                   THEN /\ dpc' = "answered"
                        /\ out' = <<[to |-> rx'.src,
                                     pkt |-> [magic |-> "announce", id |-> rx'.id,
                                              addresses |-> [i \in 1..Len(fresh) |-> fresh[i].address],
                                              relays |-> StoredRelays(db, d)]]>>
                   ELSE dpc' = "idle" /\ out' = <<>>
       /\ answered' # answered => (dpc = "answered" /\ out # <<>> /\ answered' = answered + 1)]_vars

\* a record with a stale and a fresh address is queried before the pass
\* that is due has begun: the reply holds the fresh one only
C6_Witness ==
    /\ rx.magic = "query" /\ rx.id.dev = "d1"
    /\ Len(out) = 1
    /\ Len(out[1].pkt.addresses) = 1
    /\ Len(StoredAddrs(db, "d1")) = 2
    /\ \E i \in 1..2 : now - StoredAddrs(db, "d1")[i].seen > cacheLimitSeconds
    /\ spc = "sleep" /\ wake = now

\* ---- C9
\* C9: each step of the scan counts the record it visits once, as deleted
\* if the step removes it and as kept if it leaves it in place; the report
\* gives these counts, and they add up to the number of records the
\* registry held when the pass began.
C9_SweepAccounting ==
    [][/\ PassStart => passRecords' = Cardinality({d \in Devices : db[d] # NoVal})
       /\ ScanStep =>
            \/ db'[Head(iter)] = NoVal /\ deleted' = deleted + 1 /\ kept' = kept
            \/ db'[Head(iter)] # NoVal /\ kept' = kept + 1 /\ deleted' = deleted
       /\ PassEnd =>
            /\ sweepLog'.kept = kept /\ sweepLog'.deleted = deleted
            /\ kept + deleted = passRecords]_vars

\* a pass has deleted one record and kept the other
C9_Witness ==
    /\ spc = "sleep"
    /\ sweepLog.kept = 1 /\ sweepLog.deleted = 1
    /\ passRecords = 2
    /\ Cardinality({d \in Devices : db[d] # NoVal}) = 1

\* ---- C10
\* C10 as stated: update() stores the announced relays, in order, and no
\* other step changes the relays of a record that stays in the registry.
C10_RelaysWholesale ==
    [][\A d \in Devices :
        IF PutStep /\ loc.id = d
        THEN StoredRelays(db', d) = loc.relays
        ELSE (db[d] # NoVal /\ db'[d] # NoVal) =>
                StoredRelays(db', d) = StoredRelays(db, d)]_vars

\* ---- C11
CacheKeys(c) == {c[i].key : i \in 1..Len(c)}
BucketOf(c, key) == c[CacheIndex(c, key)].bkt
\* the cached source whose latest datagram is the oldest
LeastRecent(c) ==
    CHOOSE k \in CacheKeys(c) :
        \A j \in CacheKeys(c) : lastPkt[k][2] <= lastPkt[j][2]

\* C11: the limiter cache never holds more than lruSize buckets, nor two of
\* one source.  A datagram of a cached source (admitted or rejected) keeps
\* the cached sources; a datagram of a new source adds its bucket and, when
\* the cache is full, removes the bucket of the source whose latest
\* datagram is the oldest, and no other.  The buckets of the sources that
\* stay, other than the datagram's, are unchanged, and no other step
\* changes the cache.
C11_LRUEviction ==
    [][/\ lruSize > 0 => Len(limiter') <= lruSize
       /\ Cardinality(CacheKeys(limiter')) = Len(limiter')
       /\ IF nrecv' = nrecv + 1
          THEN LET src == rx'.src
                   keys == CacheKeys(limiter)
               IN  /\ CacheKeys(limiter') =
                         IF src \in keys THEN keys
                         ELSE IF lruSize = 0 \/ Len(limiter) < lruSize
                              THEN keys \cup {src}
                              ELSE (keys \ {LeastRecent(limiter)}) \cup {src}
                   /\ \A k \in (CacheKeys(limiter') \cap keys) \ {src} :
                         BucketOf(limiter', k) = BucketOf(limiter, k)
          ELSE limiter' = limiter]_vars

\* ip1, ip2, ip1 again, then ip3 with the cache full: ip2's bucket, not the
\* older bucket of ip1, has been removed
C11_Witness ==
    /\ lruSize = 2
    /\ Len(limiter) = 2
    /\ limiter[1].key = "ip3" /\ limiter[2].key = "ip1"
    /\ lastPkt["ip1"] # NoTime /\ lastPkt["ip2"] # NoTime /\ lastPkt["ip3"] # NoTime
    /\ lastPkt["ip1"][2] = 3 /\ lastPkt["ip2"][2] = 2 /\ lastPkt["ip3"][2] = 4

\* ---- C12
\* C12: an admitted datagram of four bytes or more whose magic is neither
\* the announce nor the query magic adds one to unknowns, leaves the
\* registry and the queries, answered, announces and limited counters as
\* they are, and sends nothing; the dispatcher goes back to reading.
C12_UnknownMagic ==
    [][(nrecv' = nrecv + 1 /\ rx'.admitted /\ rx'.magic = "unknown") =>
          /\ unknowns' = unknowns + 1
          /\ db' = db
          /\ queries' = queries /\ answered' = answered
          /\ announces' = announces /\ limited' = limited
          /\ out' = <<>>
          /\ dpc' = "idle"]_vars

\* an unknown datagram has been counted while the registry holds a record
C12_Witness ==
    /\ rx.magic = "unknown" /\ rx.admitted
    /\ unknowns = 1
    /\ db["d1"] # NoVal
    /\ announces = 1

\* ---- C13
\* C13 as stated: an admitted announce that decodes but whose device id is
\* neither 32 raw bytes nor a text id leaves the registry and the announces
\* counter as they are, and update() is not entered.
C13_InvalidIDNotCounted ==
    [][(/\ nrecv' = nrecv + 1 /\ rx'.admitted
        /\ rx'.magic = "announce" /\ rx'.decode # "err"
        /\ rx'.id.form = "bad") =>
          /\ db' = db
          /\ dpc' = "idle"
          /\ announces' = announces]_vars

\* ---- C14
\* the counters as a record, and what a counter has come to since start
Counters ==
    [queries |-> queries, answered |-> answered, announces |-> announces,
     unknowns |-> unknowns, limited |-> limited]
One(b) == IF b THEN 1 ELSE 0
\* the increments of a step, each told from the datagram and the
\* dispatcher's position, not from the counters
Increments ==
    LET recv == nrecv' = nrecv + 1
    IN  [queries |-> One(QueryStep),
         answered |-> One(dpc = "answered" /\ dpc' = "idle"),
         announces |-> One(recv /\ rx'.admitted /\ rx'.magic = "announce"
                                /\ rx'.decode # "err"),
         unknowns |-> One(recv /\ rx'.admitted /\ rx'.magic = "unknown"),
         limited |-> One(recv /\ ~rx'.admitted)]

\* C14: for each counter, the sum over the lines written so far plus the
\* counter's value goes up by one in a step that increments the counter and
\* is unchanged by every other step, the reporter's included: no increment
\* is lost by a report and none is reported twice.  A line holds the values
\* the counters had when it was written.
C14_SnapshotAndReset ==
    [][/\ \A c \in DOMAIN reported :
             reported'[c] + Counters'[c] = reported[c] + Counters[c] + Increments[c]
       /\ reported' # reported =>
             /\ statsLine' = Counters
             /\ \A c \in DOMAIN reported : Counters'[c] = 0]_vars

\* a query was reported in one line and another is counted for the next,
\* and a rejected datagram has been reported
C14_Witness ==
    /\ reported.queries = 1 /\ queries = 1
    /\ reported.limited = 1
    /\ reported.announces = 1

\* ---- C15
\* C15: a call of update() stores no incoming address that fails to parse
\* as host:port (an entry of the stored list that does not parse was in
\* that place before the call), every incoming address that parses is in
\* the stored list under its scheme and host, and the stored relays are the
\* incoming ones.
C15_ParseFailurePerAddress ==
    [][PutStep =>
         LET old == loc.read.addresses
             new == StoredAddrs(db', loc.id)
         IN  /\ \A i \in 1..Len(new) :
                    ~SplitHostPortOK(new[i].address) =>
                        i <= Len(old) /\ old[i] = new[i]
             /\ \A a \in Range(loc.addrs) :
                    SplitHostPortOK(a.address) =>
                        \E b \in Range(new) :
                            SameEndpoint(URLParse(b.address), URLParse(a.address))
             /\ StoredRelays(db', loc.id) = LocalRelays(loc.relays)]_vars

\* ---- C16
\* C16: datagrams are sent only by the step that receives one, at most one
\* per datagram received, and only for an admitted query that decodes, has a
\* valid id and at least one stored address seen within cacheLimitSeconds;
\* the datagram goes to the source of the query and carries the query's id.
\* The answered counter goes up by one in the step that follows a reply that
\* was sent, and in no other step.
C16_RepliesOnlyToAnswerableQueries ==
    [][/\ out' # out => nrecv' = nrecv + 1
       /\ nrecv' = nrecv + 1 =>
            /\ Len(out') <= 1
            /\ out' # <<>> =>
                 /\ rx'.admitted /\ rx'.magic = "query" /\ rx'.decode = "ok"
                 /\ IDOK(rx'.id)
                 /\ FreshAddrs(StoredAddrs(db, ResolveID(rx'.id)), now) # <<>>
                 /\ out'[1].to = rx'.src
                 /\ out'[1].pkt.id = rx'.id
                 /\ rx'.sendOK
            /\ (dpc' = "answered") <=> (out' # <<>>)
       /\ answered' = answered + One(dpc = "answered" /\ dpc' = "idle")]_vars

\* a reply has been sent to ip2 and counted, after an announce and an
\* unknown datagram that were not answered
C16_Witness ==
    /\ nrecv = 3 /\ rx.magic = "query" /\ rx.src = "ip2"
    /\ out # <<>> /\ out[1].to = "ip2"
    /\ answered = 1 /\ dpc = "idle"
    /\ unknowns = 1 /\ announces = 1

\* ---- C17
\* C17: every record present in the registry has at least one address.
C17_NoEmptyRecord ==
    \A d \in Devices : db[d] # NoVal => Len(StoredAddrs(db, d)) > 0

\* ---- C18
\* the URI with the port replaced by 22000, as update() compares it
Canonical(a) == WithPort(URLParse(a), CanonicalPort)
NoDuplicateEndpoint ==
    \A d \in Devices :
        \A i, j \in 1..Len(StoredAddrs(db, d)) :
            i # j => Canonical(StoredAddrs(db, d)[i].address)
                        # Canonical(StoredAddrs(db, d)[j].address)
\* the scheme+host values a device has announced: as they were in its
\* datagrams, and with an empty host filled in from the datagram's source
HostsAsSent(d) == {<<h.address.scheme, h.address.host>> : h \in announced[d]}
HostsFilled(d) ==
    {<<h.address.scheme, Filled(h.address, h.src).host>> : h \in announced[d]}

\* C18 as stated: no record holds two addresses that are equal once the
\* port is replaced by 22000, and a record holds no more addresses than the
\* device has announced distinct scheme+host values.
C18_NoDuplicateEndpoints ==
    /\ NoDuplicateEndpoint
    /\ \A d \in Devices : Len(StoredAddrs(db, d)) <= Cardinality(HostsAsSent(d))

\* C18, amended: no record holds two addresses that are equal once the port
\* is replaced by 22000, and a record holds no more addresses than the
\* device has announced distinct scheme+host values, where an empty host
\* counts as the source address of the datagram that announced it.
C18_NoDuplicateEndpointsFilled ==
    /\ NoDuplicateEndpoint
    /\ \A d \in Devices : Len(StoredAddrs(db, d)) <= Cardinality(HostsFilled(d))

\* d1 has announced three addresses on two hosts, two of them differing in
\* the port only, and its record holds two
C18_Witness ==
    /\ Len(StoredAddrs(db, "d1")) = 2
    /\ Cardinality(announced["d1"]) >= 3
    /\ Cardinality(HostsFilled("d1")) = 2
    /\ \E h, k \in announced["d1"] :
          /\ h.address.port # k.address.port
          /\ Canonical(Filled(h.address, h.src)) = Canonical(Filled(k.address, k.src))

\* ---- C19
\* C19: in every line logStats writes, the answered count is at most the
\* queries count.
C19_AnsweredAtMostQueries == statsLine.answered <= statsLine.queries

\* ---- C20
\* C20: the step that receives a query, whatever becomes of the query,
\* leaves every record of the registry as it was and starts no write; so
\* does the step that counts the answer.  The registry is changed only by
\* the db.Put of an announce and by the sweeper.
C20_QueriesReadOnly ==
    [][/\ (nrecv' = nrecv + 1 /\ rx'.magic = "query") =>
             db' = db /\ dpc' # "put"
       /\ (dpc = "answered" /\ dpc' = "idle") => db' = db
       /\ db' # db => (PutStep /\ rx.magic = "announce") \/ ScanStep]_vars

\* a query for d1 found its only address stale and was not answered; the
\* address is still in the record, with the time it was seen
C20_Witness ==
    /\ rx.magic = "query" /\ rx.admitted /\ rx.decode = "ok" /\ rx.id.dev = "d1"
    /\ dpc = "idle" /\ spc = "sleep" /\ queries = 1
    /\ out = <<>>
    /\ Len(StoredAddrs(db, "d1")) = 1
    /\ now - StoredAddrs(db, "d1")[1].seen > cacheLimitSeconds
    /\ StoredAddrs(db, "d1")[1].seen = lastAnn["d1"].at
====
